---- MODULE Spec2Model ----
(***************************************************************************)
(* Overlay lifecycle of MatTimepickerBase (timepicker-base.ts) and the     *)
(* MatTimepickerToggle bound to it (timepicker-toggle).                    *)
(*                                                                         *)
(* One picker instance, one toggle, the overlays the picker has created,   *)
(* and the UI events that reach them.  Every action is one handler run to  *)
(* completion (the UI thread is single-threaded), including the handlers   *)
(* it re-enters: OverlayRef.dispose() emits a detachment, which the        *)
(* close-stream subscriber turns into a nested close().                    *)
(***************************************************************************)
EXTENDS Naturals, Sequences, FiniteSets

(* ---------------------------------------------------------------- bounds *)
\* Overlays one picker instance may create in one run.
MaxOverlays == 2

(* ------------------------------------------------------------- constants *)
ESCAPE      == 27
PAGE_UP     == 33
PAGE_DOWN   == 34
LEFT_ARROW  == 37
UP_ARROW    == 38
RIGHT_ARROW == 39
DOWN_ARROW  == 40

\* The keys of the keydown events that are generated; 13 (ENTER) stands for
\* the keys the picker does not look at.
KeyCodes == {ESCAPE, PAGE_UP, PAGE_DOWN, LEFT_ARROW, UP_ARROW, RIGHT_ARROW,
             DOWN_ARROW, 13}

ModifierKeys == {"altKey", "shiftKey", "ctrlKey", "metaKey"}

\* The modifier combinations of the keydown events that are generated.
ModifierSets == {{}, {"altKey"}, {"shiftKey"}, {"ctrlKey"}, {"metaKey"},
                 {"altKey", "shiftKey"}}

\* null / undefined of an object reference.
Null == 0

\* The inputs a template may associate with the picker.
Inputs == {"inputA", "inputB"}
NoInput == "none"

\* Values of type BooleanInput that a binding can pass (tagged by JS type).
BooleanInputs == {"true", "false", "'true'", "'false'", "''", "null",
                  "undefined"}

\* Values a binding can pass to openAs (a falsy one included).
OpenAsInputs == {"dialog", "popup", "undefined"}

XPositions == {"start", "end"}
YPositions == {"above", "below"}

NoError == "none"
ErrNoInput == "Attempted to open an MatTimepicker with no associated input."
ErrSingleInput == "A MatTimepicker can only be associated with a single input."

(* ------------------------------------------------------------- state     *)
VARIABLES
  _disabled,        \* MatTimepickerBase._disabled: "undefined", "true", "false"
  _opened,          \* MatTimepickerBase._opened
  _openAs,          \* MatTimepickerBase._openAs
  xPosition,        \* MatTimepickerBase.xPosition
  yPosition,        \* MatTimepickerBase.yPosition
  timepickerInput,  \* MatTimepickerBase.timepickerInput (NoInput when unset)
  _overlayRef,      \* MatTimepickerBase._overlayRef (overlay id or Null)
  _componentRef,    \* MatTimepickerBase._componentRef (overlay id or Null)
  overlays,         \* every OverlayRef the picker has created, by id
  closedEmitted,    \* number of closedStream.emit() calls so far
  boundPositions,   \* position inputs that have had their first change
  destroyed,        \* ngOnDestroy has run
  toggleDisabled,   \* MatTimepickerToggle._disabled: "undefined", "true", "false"
  toggleFor,        \* MatTimepickerToggle.timepicker is set
  fx,               \* the handler that ran last and the calls it made, in order
  thrown            \* the error the last handler threw, or NoError

vars == <<_disabled, _opened, _openAs, xPosition, yPosition, timepickerInput,
          _overlayRef, _componentRef, overlays, closedEmitted, boundPositions,
          destroyed, toggleDisabled, toggleFor, fx, thrown>>

(* ----------------------------------------------------- pure functions    *)
\* coerceBooleanProperty: value != null && `${value}` !== 'false'
coerceBooleanProperty(value) ==
  /\ value \notin {"null", "undefined"}
  /\ value \notin {"false", "'false'"}

BoolStr(b) == IF b THEN "true" ELSE "false"

\* JS truthiness of a boolean-or-undefined field.
Truthy(v) == v = "true"

\* hasModifierKey(event, ...modifiers)
hasModifierKey(mods, wanted) ==
  IF wanted = {} THEN mods \cap ModifierKeys # {}
  ELSE mods \cap wanted # {}

\* Mutant: the second and third fallback positions change places.
_setConnectedPositions_swapped(xPos, yPos) ==
  LET primaryX   == IF xPos = "end" THEN "end" ELSE "start"
      secondaryX == IF primaryX = "start" THEN "end" ELSE "start"
      primaryY   == IF yPos = "above" THEN "bottom" ELSE "top"
      secondaryY == IF primaryY = "top" THEN "bottom" ELSE "top"
  IN << [originX |-> primaryX,   originY |-> secondaryY,
         overlayX |-> primaryX,   overlayY |-> primaryY],
        [originX |-> secondaryX, originY |-> secondaryY,
         overlayX |-> secondaryX, overlayY |-> primaryY],
        [originX |-> primaryX,   originY |-> primaryY,
         overlayX |-> primaryX,   overlayY |-> secondaryY],
        [originX |-> secondaryX, originY |-> primaryY,
         overlayX |-> secondaryX, overlayY |-> secondaryY] >>

\* _setConnectedPositions: the list handed to strategy.withPositions.
_setConnectedPositions(xPos, yPos) ==
  LET primaryX   == IF xPos = "end" THEN "end" ELSE "start"
      secondaryX == IF primaryX = "start" THEN "end" ELSE "start"
      primaryY   == IF yPos = "above" THEN "bottom" ELSE "top"
      secondaryY == IF primaryY = "top" THEN "bottom" ELSE "top"
  IN << [originX |-> primaryX,   originY |-> secondaryY,
         overlayX |-> primaryX,   overlayY |-> primaryY],
        [originX |-> primaryX,   originY |-> primaryY,
         overlayX |-> primaryX,   overlayY |-> secondaryY],
        [originX |-> secondaryX, originY |-> secondaryY,
         overlayX |-> secondaryX, overlayY |-> primaryY],
        [originX |-> secondaryX, originY |-> primaryY,
         overlayX |-> secondaryX, overlayY |-> secondaryY] >>

(* ------------------------------------------- the picker as one record    *)
\* The fields a handler reads and writes, gathered so that nested calls
\* can be composed.
World ==
  [_disabled |-> _disabled, _opened |-> _opened, _openAs |-> _openAs,
   xPosition |-> xPosition, yPosition |-> yPosition,
   timepickerInput |-> timepickerInput, _overlayRef |-> _overlayRef,
   _componentRef |-> _componentRef, overlays |-> overlays,
   closedEmitted |-> closedEmitted, fx |-> <<>>, thrown |-> NoError]

\* The picker at the start of handler `name`.
In(name) == [World EXCEPT !.fx = <<name>>]

Log(w, call) == [w EXCEPT !.fx = Append(@, call)]

\* MatTimepickerBase.disabled (getter)
disabled(w) == w._disabled

\* Mutant: close() subscribes to nothing, so no animation-done callback
\* ever destroys the overlay.
close_noSubscribe(w) ==
  LET w0 == Log(w, "close")
  IN IF ~w0._opened THEN w0
     ELSE LET c  == w0._componentRef
              w1 == IF c # Null
                    THEN Log([w0 EXCEPT !.overlays[c].exiting = TRUE],
                             "startExitAnimation")
                    ELSE w0
          IN Log([w1 EXCEPT !._opened = FALSE,
                            !.closedEmitted = @ + 1], "closed.emit")

\* Mutant: close() without its two checks of _opened.
close_noGuard(w) ==
  LET w0 == Log(w, "close")
      c  == w0._componentRef
      w1 == IF c # Null
            THEN Log([w0 EXCEPT !.overlays[c].exiting = TRUE,
                                !.overlays[c].animationSubs = @ + 1],
                     "startExitAnimation")
            ELSE w0
  IN Log([w1 EXCEPT !._opened = FALSE, !.closedEmitted = @ + 1], "closed.emit")

\* MatTimepickerBase.close
close(w) ==
  LET w0 == Log(w, "close")
  IN IF ~w0._opened THEN w0
     ELSE LET c  == w0._componentRef
              w1 == IF c # Null
                    THEN Log([w0 EXCEPT !.overlays[c].exiting = TRUE,
                                        !.overlays[c].animationSubs = @ + 1],
                             "startExitAnimation")
                    ELSE w0
          IN IF w1._opened
             THEN Log([w1 EXCEPT !._opened = FALSE,
                                 !.closedEmitted = @ + 1], "closed.emit")
             ELSE w1

\* The subscriber of _getCloseStream(overlayRef) installed by _openOverlay.
CloseStreamNext(w, hasEvent) ==
  close(IF hasEvent THEN Log(w, "preventDefault") ELSE w)

\* OverlayRef.dispose(): tears the overlay down and, when it was attached,
\* emits a detachment to the close stream before completing it.
dispose(w, o) ==
  LET wasAttached == w.overlays[o].attached
      w1 == Log([w EXCEPT !.overlays[o].disposed = TRUE,
                          !.overlays[o].attached = FALSE], "dispose")
  IN IF wasAttached THEN CloseStreamNext(w1, FALSE) ELSE w1

\* Mutant: _destroyOverlay drops the references without disposing.
_destroyOverlay_noDispose(w) ==
  IF w._overlayRef # Null
  THEN [w EXCEPT !._overlayRef = Null, !._componentRef = Null]
  ELSE w

\* MatTimepickerBase._destroyOverlay
_destroyOverlay(w) ==
  IF w._overlayRef # Null
  THEN [dispose(w, w._overlayRef) EXCEPT !._overlayRef = Null,
                                         !._componentRef = Null]
  ELSE w

\* The OverlayConfig of _openOverlay, with the attached content.
NewOverlay(w) ==
  LET isDialog == w._openAs = "dialog"
  IN [positionStrategy |-> IF isDialog THEN "global" ELSE "flexibleConnected",
      positions        |-> IF isDialog THEN <<>>
                           ELSE _setConnectedPositions(w.xPosition, w.yPosition),
      origin           |-> IF isDialog THEN NoInput ELSE w.timepickerInput,
      hasBackdrop      |-> TRUE,
      backdropClass    |-> IF isDialog THEN "cdk-overlay-dark-backdrop"
                           ELSE "mat-overlay-transparent-backdrop",
      scrollStrategy   |-> IF isDialog THEN "block" ELSE "injected",
      panelClass       |-> "mat-timepicker-" \o w._openAs,
      attached         |-> TRUE,
      disposed         |-> FALSE,
      exiting          |-> FALSE,
      animationSubs    |-> 0]

\* Mutant: _openOverlay without the leading _destroyOverlay().
_openOverlay_keepsOld(w) ==
  LET id == Len(w.overlays) + 1
      w1 == Log([(IF w._openAs = "dialog" THEN w ELSE Log(w, "withPositions"))
                   EXCEPT !.overlays = Append(@, NewOverlay(w)),
                          !._overlayRef = id], "create")
      w2 == Log([w1 EXCEPT !._componentRef = id], "attach")
  IN IF w._openAs = "dialog" THEN w2 ELSE Log(w2, "onStable.updatePosition")

\* MatTimepickerBase._openOverlay
_openOverlay(w) ==
  LET w0 == _destroyOverlay(w)
      id == Len(w0.overlays) + 1
      w1 == Log([(IF w0._openAs = "dialog" THEN w0
                  ELSE Log(w0, "withPositions"))
                   EXCEPT !.overlays = Append(@, NewOverlay(w0)),
                          !._overlayRef = id], "create")
      w2 == Log([w1 EXCEPT !._componentRef = id], "attach")
  IN IF w0._openAs = "dialog" THEN w2 ELSE Log(w2, "onStable.updatePosition")

\* Mutant: open() without the check of disabled.
open_ignoresDisabled(w) ==
  IF w._opened THEN w
  ELSE IF w.timepickerInput = NoInput THEN [w EXCEPT !.thrown = ErrNoInput]
  ELSE [_openOverlay(w) EXCEPT !._opened = TRUE]

\* Mutant: open() without the check for an associated input.
open_noInputCheck(w) ==
  IF w._opened \/ Truthy(disabled(w)) THEN w
  ELSE [_openOverlay(w) EXCEPT !._opened = TRUE]

\* MatTimepickerBase.open
open(w) ==
  IF w._opened \/ Truthy(disabled(w)) THEN w
  ELSE IF w.timepickerInput = NoInput THEN [w EXCEPT !.thrown = ErrNoInput]
  ELSE [_openOverlay(w) EXCEPT !._opened = TRUE]

\* MatTimepickerBase.opened (setter)
SetOpenedTo(w, value) ==
  IF coerceBooleanProperty(value) THEN open(w) ELSE close(w)

\* Mutant: a later registerInput replaces the associated input.
registerInput_replaces(w, input) == [w EXCEPT !.timepickerInput = input]

\* MatTimepickerBase.registerInput
registerInput(w, input) ==
  IF w.timepickerInput # NoInput THEN [w EXCEPT !.thrown = ErrSingleInput]
  ELSE [w EXCEPT !.timepickerInput = input]

\* Mutant: ngOnDestroy only closes.
ngOnDestroy_closeOnly(w) == close(w)

\* MatTimepickerBase.ngOnDestroy
ngOnDestroy(w) == close(_destroyOverlay(w))

\* Mutant: the toggle's getter never looks at the picker.
ToggleDisabledGetter_own(w, tDisabled, tFor) == BoolStr(Truthy(tDisabled))

\* MatTimepickerToggle.disabled (getter): "undefined", "true" or "false"
ToggleDisabledGetter(w, tDisabled, tFor) ==
  IF tDisabled = "undefined" /\ tFor THEN disabled(w)
  ELSE BoolStr(Truthy(tDisabled))

\* Mutant: the toggle opens the picker without looking at its own disabled.
ToggleOpen_ignoresDisabled(w, tDisabled, tFor) ==
  IF tFor
  THEN LET w1 == open(w)
       IN IF w1.thrown # NoError THEN w1 ELSE Log(w1, "stopPropagation")
  ELSE w

\* MatTimepickerToggle.open
ToggleOpen(w, tDisabled, tFor) ==
  IF tFor /\ ~Truthy(ToggleDisabledGetter(w, tDisabled, tFor))
  THEN LET w1 == open(w)
       IN IF w1.thrown # NoError THEN w1 ELSE Log(w1, "stopPropagation")
  ELSE w

\* MatTimepickerBase.disabled (setter)
SetDisabledTo(w, value) ==
  LET newValue == BoolStr(coerceBooleanProperty(value))
  IN IF newValue # w._disabled THEN [w EXCEPT !._disabled = newValue] ELSE w

\* MatTimepickerBase.openAs (setter): value || 'popup'
\* Mutant: the openAs setter without the 'popup' fallback.
SetOpenAsTo_noFallback(w, value) ==
  [w EXCEPT !._openAs = value]

\* MatTimepickerBase.openAs (setter)
SetOpenAsTo(w, value) ==
  [w EXCEPT !._openAs = IF value \in {"undefined", "null", ""} THEN "popup"
                        ELSE value]

\* Mutant: ngOnChanges without the firstChange test.
ngOnChanges_ignoresFirstChange(w, xChange, yChange) ==
  LET positionChange == IF xChange # "absent" THEN xChange ELSE yChange
      o == w._overlayRef
  IN IF positionChange # "absent" /\ o # Null
     THEN IF w.overlays[o].positionStrategy = "flexibleConnected"
          THEN LET w1 == Log([w EXCEPT !.overlays[o].positions =
                                _setConnectedPositions(w.xPosition, w.yPosition)],
                             "withPositions")
               IN IF w1._opened THEN Log(w1, "updatePosition") ELSE w1
          ELSE w
     ELSE w

\* MatTimepickerBase.ngOnChanges; each argument is "absent", "first" or
\* "later": whether changes[...] is there and what its firstChange says.
ngOnChanges(w, xChange, yChange) ==
  LET positionChange == IF xChange # "absent" THEN xChange ELSE yChange
      o == w._overlayRef
  IN IF positionChange # "absent" /\ positionChange # "first" /\ o # Null
     THEN IF w.overlays[o].positionStrategy = "flexibleConnected"
          THEN LET w1 == Log([w EXCEPT !.overlays[o].positions =
                                _setConnectedPositions(w.xPosition, w.yPosition)],
                             "withPositions")
               IN IF w1._opened THEN Log(w1, "updatePosition") ELSE w1
          ELSE w
     ELSE w

\* MatTimepickerToggle.disabled (setter)
ToggleSetDisabledTo(value) == BoolStr(coerceBooleanProperty(value))

\* Mutant: UP_ARROW closes without Alt.
CloseKeyFilter_anyUpArrow(w, keyCode, mods) ==
  \/ keyCode = ESCAPE /\ ~hasModifierKey(mods, {})
  \/ w.timepickerInput # NoInput /\ keyCode = UP_ARROW

\* Mutant: ESCAPE closes whatever modifier is held.
CloseKeyFilter_anyEscape(w, keyCode, mods) ==
  \/ keyCode = ESCAPE
  \/ /\ w.timepickerInput # NoInput
     /\ hasModifierKey(mods, {"altKey"})
     /\ keyCode = UP_ARROW

\* The filter of _getCloseStream on overlayRef.keydownEvents().
CloseKeyFilter(w, keyCode, mods) ==
  \/ keyCode = ESCAPE /\ ~hasModifierKey(mods, {})
  \/ /\ w.timepickerInput # NoInput
     /\ hasModifierKey(mods, {"altKey"})
     /\ keyCode = UP_ARROW

\* Mutant: only the arrow keys are blocked.
BlockedKey_arrowsOnly(keyCode) ==
  keyCode \in {UP_ARROW, DOWN_ARROW, LEFT_ARROW, RIGHT_ARROW}

\* The keys whose default action _openOverlay blocks for the whole overlay.
BlockedKey(keyCode) ==
  keyCode \in {UP_ARROW, DOWN_ARROW, LEFT_ARROW, RIGHT_ARROW, PAGE_UP,
               PAGE_DOWN}

\* overlayRef.keydownEvents() emits: the close stream's subscriber runs
\* first, then the subscriber that blocks arrow and page keys.
OverlayKeydown(w, keyCode, mods) ==
  LET w1 == IF CloseKeyFilter(w, keyCode, mods) THEN CloseStreamNext(w, TRUE)
            ELSE w
  IN IF BlockedKey(keyCode) THEN Log(w1, "preventDefault") ELSE w1

\* OverlayRef.detach(): emits a detachment to the close stream.
detach(w, o) ==
  CloseStreamNext(Log([w EXCEPT !.overlays[o].attached = FALSE], "detach"),
                  FALSE)

\* Whether the content of overlay o can emit _animationDone: any time after
\* its exit animation was started and until its overlay is disposed.  The
\* disposal of the overlay destroys the content and is the one cancellation
\* there is: a disposed overlay's content reports nothing any more.
ContentAnimationDone(w, o) ==
  w.overlays[o].exiting /\ ~w.overlays[o].disposed

\* The subscribers close() left on the content's _animationDone, each
\* taking the first emission and calling _destroyOverlay.
RECURSIVE DestroyTimes(_, _)
DestroyTimes(w, n) ==
  IF n = 0 THEN w ELSE DestroyTimes(_destroyOverlay(Log(w, "_destroyOverlay")), n - 1)

AnimationDoneNext(w, o) ==
  DestroyTimes([w EXCEPT !.overlays[o].animationSubs = 0],
               w.overlays[o].animationSubs)

(* ------------------------------------------------------------ actions    *)
\* Writes the picker fields of w back to the variables.
Commit(w) ==
  /\ _disabled' = w._disabled
  /\ _opened' = w._opened
  /\ _openAs' = w._openAs
  /\ xPosition' = w.xPosition
  /\ yPosition' = w.yPosition
  /\ timepickerInput' = w.timepickerInput
  /\ _overlayRef' = w._overlayRef
  /\ _componentRef' = w._componentRef
  /\ overlays' = w.overlays
  /\ closedEmitted' = w.closedEmitted
  /\ fx' = w.fx
  /\ thrown' = w.thrown

Init ==
  /\ _disabled = "undefined"
  /\ _opened = FALSE
  /\ _openAs = "popup"
  /\ xPosition = "start"
  /\ yPosition = "below"
  /\ timepickerInput = NoInput
  /\ _overlayRef = Null
  /\ _componentRef = Null
  /\ overlays = <<>>
  /\ closedEmitted = 0
  /\ boundPositions = {}
  /\ destroyed = FALSE
  /\ toggleDisabled = "undefined"
  /\ toggleFor = FALSE
  /\ fx = <<"constructor">>
  /\ thrown = NoError

\* picker.open()
Open ==
  /\ ~destroyed
  /\ Len(open(In("open")).overlays) <= MaxOverlays
  /\ Commit(open(In("open")))
  /\ UNCHANGED <<boundPositions, destroyed, toggleDisabled, toggleFor>>

\* picker.close()
Close ==
  /\ ~destroyed
  /\ Commit(close(In("close")))
  /\ UNCHANGED <<boundPositions, destroyed, toggleDisabled, toggleFor>>

\* picker.opened = value
SetOpened(value) ==
  /\ ~destroyed
  /\ Len(SetOpenedTo(In("opened="), value).overlays) <= MaxOverlays
  /\ Commit(SetOpenedTo(In("opened="), value))
  /\ UNCHANGED <<boundPositions, destroyed, toggleDisabled, toggleFor>>

\* picker.disabled = value
SetDisabled(value) ==
  /\ ~destroyed
  /\ Commit(SetDisabledTo(In("disabled="), value))
  /\ UNCHANGED <<boundPositions, destroyed, toggleDisabled, toggleFor>>

\* picker.openAs = value
SetOpenAs(value) ==
  /\ ~destroyed
  /\ Commit(SetOpenAsTo(In("openAs="), value))
  /\ UNCHANGED <<boundPositions, destroyed, toggleDisabled, toggleFor>>

\* picker.registerInput(input), called by the input directive
RegisterInput(input) ==
  /\ ~destroyed
  /\ Commit(registerInput(In("registerInput"), input))
  /\ UNCHANGED <<boundPositions, destroyed, toggleDisabled, toggleFor>>

\* A change-detection pass that writes the bound position inputs in `keys`
\* and then calls ngOnChanges.  The first pass delivers every bound position
\* input as a first change; later passes deliver the ones whose value moved.
NgOnChanges(keys, x, y) ==
  /\ ~destroyed
  /\ keys # {}
  /\ IF boundPositions = {} THEN boundPositions' = keys
     ELSE /\ keys \subseteq boundPositions
          /\ "xPosition" \in keys => x # xPosition
          /\ "yPosition" \in keys => y # yPosition
          /\ UNCHANGED boundPositions
  /\ LET kind == IF boundPositions = {} THEN "first" ELSE "later"
         w0   == [In("ngOnChanges") EXCEPT
                    !.xPosition = IF "xPosition" \in keys THEN x ELSE @,
                    !.yPosition = IF "yPosition" \in keys THEN y ELSE @]
     IN /\ Commit(ngOnChanges(w0,
                    IF "xPosition" \in keys THEN kind ELSE "absent",
                    IF "yPosition" \in keys THEN kind ELSE "absent"))
  /\ UNCHANGED <<destroyed, toggleDisabled, toggleFor>>

\* The view is torn down.
NgOnDestroy ==
  /\ ~destroyed
  /\ Commit(ngOnDestroy(In("ngOnDestroy")))
  /\ destroyed' = TRUE
  /\ UNCHANGED <<boundPositions, toggleDisabled, toggleFor>>

\* A click on the toggle's host element.
ToggleClick ==
  /\ ~destroyed
  /\ Len(ToggleOpen(In("toggle.click"), toggleDisabled, toggleFor).overlays) <= MaxOverlays
  /\ Commit(ToggleOpen(In("toggle.click"), toggleDisabled, toggleFor))
  /\ UNCHANGED <<boundPositions, destroyed, toggleDisabled, toggleFor>>

\* toggle.disabled = value
ToggleSetDisabled(value) ==
  /\ ~destroyed
  /\ toggleDisabled' = ToggleSetDisabledTo(value)
  /\ Commit(In("toggle.disabled="))
  /\ UNCHANGED <<boundPositions, destroyed, toggleFor>>

\* The toggle's [for] input is bound to the picker, or cleared.
ToggleSetFor(bound) ==
  /\ ~destroyed
  /\ toggleFor' = bound
  /\ Commit(In("toggle.for="))
  /\ UNCHANGED <<boundPositions, destroyed, toggleDisabled>>

\* The overlays that still receive keyboard and backdrop events.
Live(o) == overlays[o].attached /\ ~overlays[o].disposed

\* A keydown dispatched to overlay o.
Keydown(o, keyCode, mods) ==
  /\ Live(o)
  /\ Commit(OverlayKeydown(In("keydown"), keyCode, mods))
  /\ UNCHANGED <<boundPositions, destroyed, toggleDisabled, toggleFor>>

\* A click on the backdrop of overlay o.
BackdropClick(o) ==
  /\ Live(o)
  /\ Commit(CloseStreamNext(In("backdropClick"), TRUE))
  /\ UNCHANGED <<boundPositions, destroyed, toggleDisabled, toggleFor>>

\* Overlay o is detached from outside the picker (the injected scroll
\* strategy may close the overlay on scroll).
Detach(o) ==
  /\ Live(o)
  /\ overlays[o].scrollStrategy = "injected"
  /\ Commit(detach(In("detach"), o))
  /\ UNCHANGED <<boundPositions, destroyed, toggleDisabled, toggleFor>>

\* The content of overlay o reports that its animation is done.
AnimationDone(o) ==
  /\ ContentAnimationDone(World, o)
  /\ overlays[o].animationSubs > 0
  /\ Commit(AnimationDoneNext(In("animationDone"), o))
  /\ UNCHANGED <<boundPositions, destroyed, toggleDisabled, toggleFor>>

\* The picker and its overlays.
Lifecycle ==
  \/ Open
  \/ Close
  \/ \E value \in BooleanInputs : SetOpened(value)
  \/ \E value \in BooleanInputs : SetDisabled(value)
  \/ \E value \in OpenAsInputs : SetOpenAs(value)
  \/ \E input \in Inputs : RegisterInput(input)
  \/ NgOnDestroy
  \/ \E o \in DOMAIN overlays : BackdropClick(o)
  \/ \E o \in DOMAIN overlays : Detach(o)
  \/ \E o \in DOMAIN overlays : AnimationDone(o)

\* The picker, its toggle and the keyboard.
Next ==
  \/ Lifecycle
  \/ ToggleClick
  \/ \E value \in BooleanInputs : ToggleSetDisabled(value)
  \/ \E bound \in BOOLEAN : ToggleSetFor(bound)
  \/ \E o \in DOMAIN overlays, keyCode \in KeyCodes, mods \in ModifierSets :
        Keydown(o, keyCode, mods)

Spec == Init /\ [][Next]_vars

\* The picker under change detection of its position inputs.  ngOnChanges
\* writes only xPosition, yPosition and the positions of the current overlay,
\* which neither the toggle nor a keydown reads, so the two are explored
\* apart.
NextPosition ==
  \/ Lifecycle
  \/ \E keys \in SUBSET {"xPosition", "yPosition"}, x \in XPositions,
        y \in YPositions : NgOnChanges(keys, x, y)

SpecPosition == Init /\ [][NextPosition]_vars

\* The picker and the keyboard.  A keydown subscriber reads nothing of the
\* toggle, whose click is one more call of open().
NextKeydown ==
  \/ Lifecycle
  \/ \E o \in DOMAIN overlays, keyCode \in KeyCodes, mods \in ModifierSets :
        Keydown(o, keyCode, mods)

SpecKeydown == Init /\ [][NextKeydown]_vars

\* The picker and its overlays, where the content of an overlay whose
\* animation-done subscriber is waiting does report that its animation is
\* done.
AnimationDoneOf(o) == o \in DOMAIN overlays /\ AnimationDone(o)

SpecAnimation ==
  /\ Init
  /\ [][Lifecycle]_vars
  /\ \A o \in 1..MaxOverlays : WF_vars(AnimationDoneOf(o))

(* ------------------------------------------------------------ properties *)
\* The calls of the last handler, and how often one was made.
Called(call) == \E i \in DOMAIN fx : fx[i] = call
CalledPrime(call) == \E i \in DOMAIN fx' : fx'[i] = call
TimesPrime(call) == Cardinality({i \in DOMAIN fx' : fx'[i] = call})
\* In the handler that just ran, `first` was called and came before every `then`.
BeforePrime(first, then) ==
  \E i \in DOMAIN fx' :
     /\ fx'[i] = first
     /\ \A j \in DOMAIN fx' : fx'[j] = then => i < j

LiveOverlays == {o \in DOMAIN overlays : ~overlays[o].disposed}
AttachedOverlays == {o \in DOMAIN overlays : overlays[o].attached}

\* C1: a click on a toggle bound to a closed picker with a registered input
\* opens the picker (opened, exactly one overlay attached) when neither the
\* toggle nor the picker is disabled, and otherwise leaves the picker closed
\* and creates no overlay.
C1_ToggleClickOpensUnlessDisabled ==
  [][(ToggleClick /\ toggleFor /\ timepickerInput # NoInput /\ ~_opened) =>
       IF toggleDisabled = "true" \/ _disabled = "true"
       THEN /\ ~_opened'
            /\ overlays' = overlays
       ELSE /\ _opened'
            /\ Len(overlays') = Len(overlays) + 1
            /\ Cardinality({o \in DOMAIN overlays' : overlays'[o].attached}) = 1
            /\ _overlayRef' = Len(overlays')
            /\ overlays'[_overlayRef'].attached]_vars

C1_Witness ==
  /\ fx[1] = "toggle.click"
  /\ Called("stopPropagation")
  /\ _opened
  /\ Cardinality(AttachedOverlays) = 1

\* C2: while the picker is open, a keydown of ESCAPE without modifiers on the
\* overlay closes it, emits closed once and calls preventDefault on the
\* event; ESCAPE with a modifier held leaves opened as it is.
C2_EscapeCloses ==
  [][fx'[1] = "keydown" =>
      \A o \in DOMAIN overlays, mods \in ModifierSets :
        Keydown(o, ESCAPE, mods) =>
          IF mods = {}
          THEN _opened => /\ ~_opened'
                          /\ closedEmitted' = closedEmitted + 1
                          /\ TimesPrime("closed.emit") = 1
                          /\ CalledPrime("preventDefault")
          ELSE _opened' = _opened]_vars

C2_Witness ==
  /\ fx = <<"keydown", "preventDefault", "close", "startExitAnimation",
            "closed.emit">>
  /\ ~_opened
  /\ closedEmitted = 1

\* The ways the claims of C3 reach open(): directly, by writing a true value
\* to opened, and by a click on a bound toggle that is not disabled.
CallsOpen ==
  \/ Open
  \/ \E value \in {"true", "'true'", "''"} : SetOpened(value)
  \/ /\ ToggleClick
     /\ toggleFor
     /\ ~(toggleDisabled = "true")
     /\ ~(toggleDisabled = "undefined" /\ _disabled = "true")

NoInputThrows ==
  /\ thrown' = ErrNoInput
  /\ ~_opened'
  /\ overlays' = overlays
  /\ _overlayRef' = _overlayRef

\* C3 as stated: with no input registered, every call of open() throws and
\* leaves the picker closed without an overlay.
C3_Original_NoInputAlwaysThrows ==
  [][(CallsOpen /\ timepickerInput = NoInput) => NoInputThrows]_vars

\* C3: with no input registered and the picker not disabled, every call of
\* open() throws 'Attempted to open an MatTimepicker with no associated
\* input.' and leaves the picker closed without an overlay.
C3_NoInputThrowsUnlessDisabled ==
  [][(CallsOpen /\ timepickerInput = NoInput /\ _disabled # "true")
       => NoInputThrows]_vars

C3_Witness ==
  /\ thrown = ErrNoInput
  /\ fx[1] \in {"open", "opened=", "toggle.click"}
  /\ timepickerInput = NoInput
  /\ ~_opened
  /\ overlays = <<>>

\* C4: the first registerInput sets timepickerInput; every later one throws
\* 'A MatTimepicker can only be associated with a single input.' and leaves
\* the input, opened and the overlay alone; once set, the input never changes.
C4_SingleInput ==
  [][/\ \A input \in Inputs :
          RegisterInput(input) =>
            IF timepickerInput = NoInput
            THEN timepickerInput' = input /\ thrown' = NoError
            ELSE /\ thrown' = ErrSingleInput
                 /\ UNCHANGED <<timepickerInput, _opened, _overlayRef,
                                _componentRef, overlays>>
     /\ timepickerInput # NoInput => timepickerInput' = timepickerInput]_vars

C4_Witness ==
  /\ fx[1] = "registerInput"
  /\ thrown = ErrSingleInput
  /\ timepickerInput \in Inputs

\* C5: a picker instance never has more than one overlay that it created and
\* did not dispose, whatever the order of opens, closes, events, animation
\* callbacks and destruction.
C5_OneOverlayPerInstance == Cardinality(LiveOverlays) <= 1

\* open() after close() and before the exit animation is done: the old
\* overlay is disposed with its animation subscriber still waiting.
C5_Witness ==
  /\ Len(overlays) >= 2
  /\ overlays[1].disposed
  /\ overlays[1].animationSubs > 0
  /\ _overlayRef = 2
  /\ ~overlays[2].disposed
  /\ _opened

\* C6: closed is emitted exactly when opened goes from true to false, once.
C6_ClosedOncePerClosing ==
  [][/\ closedEmitted' =
          closedEmitted + (IF _opened /\ ~_opened' THEN 1 ELSE 0)
     /\ TimesPrime("closed.emit") = closedEmitted' - closedEmitted]_vars

\* A second close trigger while the exit animation runs: ESCAPE after the
\* picker was closed, with the overlay still attached.
C6_Witness ==
  /\ fx = <<"keydown", "preventDefault", "close">>
  /\ ~_opened
  /\ closedEmitted = 1
  /\ _overlayRef # Null
  /\ overlays[_overlayRef].exiting
  /\ overlays[_overlayRef].attached

\* open() called directly or by writing a true value to opened.
OpenCall ==
  \/ Open
  \/ \E value \in {"true", "'true'", "''"} : SetOpened(value)

\* C7 as stated: with disabled true, open() leaves opened false, creates no
\* overlay and emits nothing; open() on an open picker creates no overlay.
C7_Original_DisabledLeavesClosed ==
  [][/\ (OpenCall /\ _disabled = "true") =>
          /\ ~_opened'
          /\ overlays' = overlays
          /\ closedEmitted' = closedEmitted
     /\ (OpenCall /\ _opened) => overlays' = overlays]_vars

\* C7: with disabled true, or on a picker that is already open, open() is a
\* no-op: opened, the overlay and the emissions stay as they were and nothing
\* is thrown, so a closed disabled picker stays closed.
C7_DisabledOrOpenIsNoOp ==
  [][(OpenCall /\ (_disabled = "true" \/ _opened)) =>
       /\ UNCHANGED <<_opened, overlays, _overlayRef, _componentRef,
                      closedEmitted>>
       /\ thrown' = NoError
       /\ Len(fx') = 1]_vars

C7_Witness ==
  /\ fx \in {<<"open">>, <<"opened=">>}
  /\ _disabled = "true"
  /\ timepickerInput # NoInput
  /\ ~_opened
  /\ _overlayRef = Null

\* toggle.disabled as the template reads it.
ToggleDisabled == ToggleDisabledGetter(World, toggleDisabled, toggleFor)

\* C8: with its own disabled never set and a picker bound, the toggle's
\* disabled is the picker's; with nothing set and no picker it is false; once
\* set it is the coerced value that was set, whatever the picker's flag does.
C8_ToggleDisabledInherited ==
  /\ [](/\ (toggleDisabled = "undefined" /\ toggleFor)
             => ToggleDisabled = _disabled
        /\ (toggleDisabled = "undefined" /\ ~toggleFor)
             => ToggleDisabled = "false")
  /\ [][/\ \A value \in BooleanInputs :
             ToggleSetDisabled(value) =>
               ToggleDisabled' = (IF value \in {"true", "'true'", "''"}
                                  THEN "true" ELSE "false")
        /\ (toggleDisabled # "undefined" /\ fx'[1] # "toggle.disabled=")
             => ToggleDisabled' = ToggleDisabled]_vars

\* The toggle follows a picker that was disabled after the toggle was bound.
C8_Witness ==
  /\ toggleDisabled = "undefined"
  /\ toggleFor
  /\ _disabled = "true"
  /\ ToggleDisabled = "true"
  /\ fx[1] = "disabled="

\* The keydown events C9 names as closing: ESCAPE without modifiers, and
\* UP_ARROW with Alt when an input is associated.
C9_ClosingKey(keyCode, mods) ==
  \/ keyCode = ESCAPE /\ mods = {}
  \/ keyCode = UP_ARROW /\ "altKey" \in mods /\ timepickerInput # NoInput

\* C9: of the events on an overlay, exactly these close the picker: a
\* backdrop click, a detachment, ESCAPE without modifiers, and UP_ARROW with
\* Alt when an input is associated; every other keydown leaves opened as it
\* is and never reaches close().  An event object gets preventDefault before
\* close() is called.
C9_CloseStream ==
  [][/\ fx'[1] = "keydown" =>
          \A keyCode \in KeyCodes, mods \in ModifierSets :
            \* Keydown(o, keyCode, mods) => ..., the outcome evaluated first
            \/ IF C9_ClosingKey(keyCode, mods)
               THEN ~_opened' /\ BeforePrime("preventDefault", "close")
               ELSE _opened' = _opened /\ ~CalledPrime("close")
            \/ \A o \in DOMAIN overlays : ~Keydown(o, keyCode, mods)
     /\ fx'[1] = "backdropClick" =>
          \A o \in DOMAIN overlays :
            BackdropClick(o) =>
              ~_opened' /\ BeforePrime("preventDefault", "close")
     /\ fx'[1] = "detach" =>
          \A o \in DOMAIN overlays :
            Detach(o) =>
              ~_opened' /\ CalledPrime("close")
                        /\ ~CalledPrime("preventDefault")]_vars

\* Alt + UP_ARROW closed an open picker.
C9_Witness ==
  /\ fx = <<"keydown", "preventDefault", "close", "startExitAnimation",
            "closed.emit", "preventDefault">>
  /\ ~_opened
  /\ timepickerInput # NoInput

\* The connected position that puts the overlay on side x of the origin,
\* below it (origin bottom, overlay top) or above it (origin top, overlay
\* bottom).
ConnectedPosition(x, y) ==
  [originX |-> x, overlayX |-> x,
   originY |-> IF y = "below" THEN "bottom" ELSE "top",
   overlayY |-> IF y = "below" THEN "top" ELSE "bottom"]

OppositeX(x) == IF x = "start" THEN "end" ELSE "start"
OppositeY(y) == IF y = "below" THEN "above" ELSE "below"

\* C10: whenever _setConnectedPositions has run, the overlay holds four
\* pairwise distinct positions in the order (preferred X, preferred Y),
\* (preferred X, opposite Y), (opposite X, preferred Y), (opposite X,
\* opposite Y), each with originX = overlayX and originY opposite overlayY.
C10_FallbackOrder ==
  Called("withPositions") =>
    /\ _overlayRef # Null
    /\ LET ps == overlays[_overlayRef].positions
       IN /\ ps = << ConnectedPosition(xPosition, yPosition),
                     ConnectedPosition(xPosition, OppositeY(yPosition)),
                     ConnectedPosition(OppositeX(xPosition), yPosition),
                     ConnectedPosition(OppositeX(xPosition),
                                       OppositeY(yPosition)) >>
          /\ Len(ps) = 4
          /\ \A i, j \in 1..4 : i # j => ps[i] # ps[j]
          /\ \A i \in 1..4 : /\ ps[i].originX = ps[i].overlayX
                             /\ ps[i].originY # ps[i].overlayY

\* A later change of both position inputs re-applied the positions.
C10_Witness ==
  /\ fx[1] = "ngOnChanges"
  /\ Called("withPositions")
  /\ xPosition = "end"
  /\ yPosition = "above"
  /\ overlays[_overlayRef].positions[1] =
       [originX |-> "end", originY |-> "top",
        overlayX |-> "end", overlayY |-> "bottom"]

\* close() reached from outside the overlay's teardown: called directly, by
\* writing a false value to opened, or by a click on the backdrop.
CloseCall ==
  \/ Close
  \/ \E value \in {"false", "'false'", "null", "undefined"} : SetOpened(value)
  \/ \E o \in DOMAIN overlays : BackdropClick(o)

\* C11: close() on an open picker starts the exit animation and sets opened
\* to false at once, while the overlay stays referenced and undisposed; when
\* the animation-done event of that content fires, the overlay is disposed
\* and the overlay and component references are null; and the event being
\* delivered whenever it stays pending, that happens eventually unless the
\* picker is opened again first (which disposes the overlay itself).
C11_DisposedWhenAnimationDone ==
  /\ [][/\ (CloseCall /\ _opened) =>
             /\ ~_opened'
             /\ CalledPrime("startExitAnimation")
             /\ _overlayRef # Null
             /\ UNCHANGED <<_overlayRef, _componentRef>>
             /\ ~overlays'[_overlayRef].disposed
             /\ ~CalledPrime("dispose")
        /\ \A o \in DOMAIN overlays :
             AnimationDone(o) =>
               /\ overlays'[o].disposed
               /\ _overlayRef' = Null
               /\ _componentRef' = Null]_vars
  /\ \A o \in 1..MaxOverlays :
       (/\ o \in DOMAIN overlays
        /\ ~_opened
        /\ _overlayRef = o
        /\ overlays[o].exiting
        /\ ~overlays[o].disposed)
         ~> (/\ o \in DOMAIN overlays
             /\ overlays[o].disposed
             /\ \/ _overlayRef = Null /\ _componentRef = Null
                \/ Len(overlays) > o)

\* The animation-done callback of a closed picker disposed its overlay.
C11_Witness ==
  /\ fx[1] = "animationDone"
  /\ Called("dispose")
  /\ ~_opened
  /\ overlays[1].disposed
  /\ _overlayRef = Null
  /\ _componentRef = Null

C13_DestroyTearsDown ==
  [][NgOnDestroy =>
       /\ ~_opened'
       /\ _overlayRef' = Null
       /\ _componentRef' = Null
       /\ \A o \in DOMAIN overlays' : /\ overlays'[o].disposed
                                      /\ ~overlays'[o].attached
       /\ closedEmitted' = closedEmitted + (IF _opened THEN 1 ELSE 0)
       /\ TimesPrime("closed.emit") = (IF _opened THEN 1 ELSE 0)]_vars

\* The picker was destroyed while open.
C13_Witness ==
  /\ fx[1] = "ngOnDestroy"
  /\ Called("closed.emit")
  /\ destroyed
  /\ ~_opened
  /\ _overlayRef = Null
  /\ Len(overlays) >= 1
  /\ \A o \in DOMAIN overlays : overlays[o].disposed

\* The mode an overlay was created with.
Mode(overlay) ==
  [positionStrategy |-> overlay.positionStrategy,
   backdropClass    |-> overlay.backdropClass,
   scrollStrategy   |-> overlay.scrollStrategy,
   panelClass       |-> overlay.panelClass]

DialogMode ==
  [positionStrategy |-> "global",
   backdropClass    |-> "cdk-overlay-dark-backdrop",
   scrollStrategy   |-> "block",
   panelClass       |-> "mat-timepicker-dialog"]

PopupMode ==
  [positionStrategy |-> "flexibleConnected",
   backdropClass    |-> "mat-overlay-transparent-backdrop",
   scrollStrategy   |-> "injected",
   panelClass       |-> "mat-timepicker-popup"]

\* C14: openAs is always 'dialog' or 'popup', a falsy value assigned to it
\* yields 'popup'; an overlay created while openAs is 'dialog' has the global
\* strategy, the dark backdrop, the blocking scroll strategy and panel class
\* 'mat-timepicker-dialog', any other the connected strategy, the transparent
\* backdrop, the injected scroll strategy and panel class
\* 'mat-timepicker-popup'; the mode of an existing overlay never changes, and
\* assigning openAs leaves opened and the overlays as they are.
C14_ModeFixedAtOpen ==
  /\ [](_openAs \in {"dialog", "popup"})
  /\ [][/\ \A o \in DOMAIN overlays' :
             IF o \in DOMAIN overlays
             THEN Mode(overlays'[o]) = Mode(overlays[o])
             ELSE Mode(overlays'[o]) =
                    (IF _openAs = "dialog" THEN DialogMode ELSE PopupMode)
        /\ \A value \in OpenAsInputs :
             SetOpenAs(value) =>
               /\ _openAs' = (IF value = "dialog" THEN "dialog" ELSE "popup")
               /\ UNCHANGED <<_opened, _overlayRef, _componentRef, overlays,
                              closedEmitted>>]_vars

\* openAs was set to popup while the picker is open as a dialog.
C14_Witness ==
  /\ fx[1] = "openAs="
  /\ _opened
  /\ _openAs = "popup"
  /\ Mode(overlays[_overlayRef]) = DialogMode
  /\ Len(overlays) = 2
  /\ Mode(overlays[1]) = PopupMode

\* A change-detection pass that changes xPosition, yPosition or both.
PositionChange ==
  \E keys \in SUBSET {"xPosition", "yPosition"}, x \in XPositions,
     y \in YPositions : NgOnChanges(keys, x, y)

\* The change is not the first one, an overlay exists and it was opened as a
\* popup.
C15_Reapplies ==
  /\ boundPositions # {}
  /\ _overlayRef # Null
  /\ Mode(overlays[_overlayRef]) = PopupMode

\* C15: a change of xPosition or yPosition re-applies the four connected
\* positions exactly when it is not the first change, an overlay exists and
\* that overlay was opened as a popup, and then calls updatePosition exactly
\* when the picker is open; otherwise ngOnChanges calls nothing and leaves
\* the overlays as they are; it never changes opened, the references, the
\* other overlays or the count of closed emissions.
C15_PositionChange ==
  [][PositionChange =>
       /\ CalledPrime("withPositions") <=> C15_Reapplies
       /\ CalledPrime("updatePosition") <=> (C15_Reapplies /\ _opened)
       /\ C15_Reapplies =>
            /\ Len(overlays'[_overlayRef].positions) = 4
            /\ overlays' = [overlays EXCEPT ![_overlayRef].positions =
                              overlays'[_overlayRef].positions]
       /\ ~C15_Reapplies => /\ UNCHANGED overlays
                            /\ Len(fx') = 1
       /\ UNCHANGED <<_opened, _overlayRef, _componentRef, closedEmitted,
                      _openAs, _disabled, timepickerInput>>]_vars

\* A later change re-applied the positions of a closed picker's overlay
\* without recomputing its position.
C15_Witness ==
  /\ fx[1] = "ngOnChanges"
  /\ Called("withPositions")
  /\ ~Called("updatePosition")
  /\ ~_opened
  /\ _overlayRef # Null
  /\ overlays[_overlayRef].exiting

\* The arrow and page keys.
C16_ArrowOrPageKey ==
  {UP_ARROW, DOWN_ARROW, LEFT_ARROW, RIGHT_ARROW, PAGE_UP, PAGE_DOWN}

\* C16: every keydown on an overlay, dialog or popup, whose keyCode is an
\* arrow or page key has preventDefault called on it and, unless it is
\* UP_ARROW with Alt held, leaves opened and the overlays unchanged; a
\* keydown of another key that is not a close trigger has no preventDefault
\* called.
C16_ArrowAndPageKeysBlocked ==
  [][fx'[1] = "keydown" =>
       \A keyCode \in KeyCodes, mods \in ModifierSets :
         \* Keydown(o, keyCode, mods) => ..., the outcome evaluated first
         \/ /\ keyCode \in C16_ArrowOrPageKey =>
                 CalledPrime("preventDefault")
            /\ ( /\ keyCode \in C16_ArrowOrPageKey
                 /\ ~(keyCode = UP_ARROW /\ "altKey" \in mods) ) =>
                 UNCHANGED <<_opened, overlays, _overlayRef, _componentRef,
                             closedEmitted>>
            /\ ( /\ keyCode \notin C16_ArrowOrPageKey
                 /\ ~C9_ClosingKey(keyCode, mods) ) =>
                 ~CalledPrime("preventDefault")
         \/ \A o \in DOMAIN overlays : ~Keydown(o, keyCode, mods)]_vars

\* An arrow or page key was blocked on an open dialog and closed nothing.
C16_Witness ==
  /\ fx = <<"keydown", "preventDefault">>
  /\ _opened
  /\ Mode(overlays[_overlayRef]) = DialogMode

====
